---- MODULE Spec2Model ----
(***************************************************************************)
(* Crypto Rotation Map: the sector dashboard (Home, the second component   *)
(* of src/app/page.tsx): its refresh pipeline (fetchAll, the 5-minute      *)
(* interval, the effect's cleanup), the EMA-structure scores, the rotation *)
(* leaderboard and the rotation-signal emitter.                            *)
(*                                                                         *)
(* JavaScript numbers are modelled as exact rationals [n, d] (d > 0, in    *)
(* lowest terms) or NaN; null is Null, a missing object key is Undefined.  *)
(* Scores are the integer literals the code returns.                       *)
(***************************************************************************)
EXTENDS Integers, Sequences, FiniteSets, TLC

(* ------------------------------------------------------------------ *)
(* Bounds of the model                                                 *)
(* ------------------------------------------------------------------ *)

\* fetchAll invocations of one mounted component: the mount's and the timer's.
MaxRefreshes == 2

\* Items handed to the signal emitter when it is checked on its own.
MaxItems == 3

\* The longest price series, and the largest period, given to calculateEMA on its own.
MaxSeries == 3

MaxPeriod == 3

(* ------------------------------------------------------------------ *)
(* Values                                                              *)
(* ------------------------------------------------------------------ *)

Null == [null |-> TRUE]

Undefined == [undef |-> TRUE]

NaN == [nan |-> TRUE]

RECURSIVE Gcd(_, _)
Gcd(a, b) == IF b = 0 THEN a ELSE Gcd(b, a % b)

Abs(x) == IF x < 0 THEN -x ELSE x

\* The rational n/d in lowest terms with a positive denominator (d # 0).
Rat(n, d) ==
    LET s == IF d < 0 THEN -1 ELSE 1
        g == Gcd(Abs(n), Abs(d))
    IN  [n |-> (s * n) \div g, d |-> (s * d) \div g]

Num(i) == [n |-> i, d |-> 1]

IsNaN(x) == x = NaN

\* JavaScript's < and > on numbers: false whenever an operand is NaN.
Lt(x, y) == ~IsNaN(x) /\ ~IsNaN(y) /\ x.n * y.d < y.n * x.d

Gt(x, y) == Lt(y, x)

(* ------------------------------------------------------------------ *)
(* Configuration                                                       *)
(* ------------------------------------------------------------------ *)

\* const COINS: Coin[] of the sector dashboard.
COINS ==
    << [id |-> "bitcoin",     symbol |-> "BTC",  sector |-> "Macro"],
       [id |-> "ethereum",    symbol |-> "ETH",  sector |-> "L1"],
       [id |-> "solana",      symbol |-> "SOL",  sector |-> "L1"],
       [id |-> "chainlink",   symbol |-> "LINK", sector |-> "Oracle"],
       [id |-> "avalanche-2", symbol |-> "AVAX", sector |-> "L1"] >>

CoinIds == {COINS[i].id : i \in 1..Len(COINS)}

\* The keys of sectorMap, in the order Object.entries yields them.
SectorOrder == <<"Macro", "L1", "Oracle">>

Sectors == {SectorOrder[i] : i \in 1..Len(SectorOrder)}

\* The sector filter buttons: "All" and every sector of COINS.
Filters == {"All"} \cup {COINS[i].sector : i \in 1..Len(COINS)}

\* const steps7 = 24 * 7
steps7 == 168

(* ------------------------------------------------------------------ *)
(* Indicator and scoring functions                                     *)
(* ------------------------------------------------------------------ *)

\* EmaStep with the weights swapped: ema = prices[i] * (1 - k) + ema * k.
EmaStepSwapped(ema, p, period) ==
    IF IsNaN(ema) \/ IsNaN(p) THEN NaN
    ELSE Rat((period - 1) * p.n * ema.d + 2 * ema.n * p.d, (period + 1) * ema.d * p.d)

\* One iteration: ema = prices[i] * k + ema * (1 - k), k = 2 / (period + 1).
EmaStep(ema, p, period) ==
    IF IsNaN(ema) \/ IsNaN(p) THEN NaN
    ELSE Rat(2 * p.n * ema.d + (period - 1) * ema.n * p.d, (period + 1) * ema.d * p.d)

\* for (let i = 1; i < prices.length; i++), from iteration i on (a NaN stays NaN).
RECURSIVE EmaLoop(_, _, _, _)
EmaLoop(prices, period, i, ema) ==
    IF i > Len(prices) \/ IsNaN(ema) THEN ema
    ELSE EmaLoop(prices, period, i + 1, EmaStep(ema, prices[i], period))

calculateEMA(prices, period) ==
    IF Len(prices) < period THEN NaN
    ELSE EmaLoop(prices, period, 2, prices[1])

\* !price: null, 0 and NaN are falsy.
Falsy(price) == price = Null \/ IsNaN(price) \/ price.n = 0

\* Trend score from EMA structure.
getTrendScore(price, trend) ==
    IF Falsy(price) \/ trend = Undefined \/ IsNaN(trend.ema20) \/ IsNaN(trend.ema50)
    THEN 0
    ELSE IF Gt(price, trend.ema20) /\ Gt(trend.ema20, trend.ema50) THEN 2
    ELSE IF Gt(trend.ema20, trend.ema50) THEN 1
    ELSE IF Lt(price, trend.ema20) /\ Lt(trend.ema20, trend.ema50) THEN -2
    ELSE -1

\* getMomentumScore with >= 7 for > 7.
getMomentumScoreInclusive(change) ==
    IF change = Null \/ IsNaN(change) THEN 0
    ELSE IF ~Lt(change, Num(7)) THEN 3
    ELSE IF Gt(change, Num(3)) THEN 2
    ELSE IF Gt(change, Num(0)) THEN 1
    ELSE IF Lt(change, Num(-7)) THEN -3
    ELSE IF Lt(change, Num(-3)) THEN -2
    ELSE IF Lt(change, Num(0)) THEN -1
    ELSE 0

\* Short-term momentum score from the 24h % change.
getMomentumScore(change) ==
    IF change = Null \/ IsNaN(change) THEN 0
    ELSE IF Gt(change, Num(7)) THEN 3
    ELSE IF Gt(change, Num(3)) THEN 2
    ELSE IF Gt(change, Num(0)) THEN 1
    ELSE IF Lt(change, Num(-7)) THEN -3
    ELSE IF Lt(change, Num(-3)) THEN -2
    ELSE IF Lt(change, Num(0)) THEN -1
    ELSE 0

(* ------------------------------------------------------------------ *)
(* fetchAll: building the snapshot from the provider's answers         *)
(* ------------------------------------------------------------------ *)

\* d?.field ?? null
Coalesce(v) == IF v = Undefined \/ v = Null THEN Null ELSE v

\* newMarketData from simpleJson: a function from coin id to the provider's
\* entry [usd, usd_24h_change], or Undefined where the provider has none.
BuildMarketData(simpleJson) ==
    [id \in CoinIds |->
        LET d == simpleJson[id]
        IN  [price     |-> IF d = Undefined THEN Null ELSE Coalesce(d.usd),
             change24h |-> IF d = Undefined THEN Null ELSE Coalesce(d.usd_24h_change)]]

\* approximate 7d change using 24 * 7 steps back (hourly data)
Change7d(prices) ==
    IF Len(prices) > steps7
    THEN LET last == prices[Len(prices)]
             prev == prices[Len(prices) - steps7]
         IN  IF prev.n # 0
             THEN Rat((last.n * prev.d - prev.n * last.d) * prev.d * 100,
                      last.d * prev.d * prev.n)
             ELSE Null
    ELSE Null

\* One TrendInfo (the sparkline points, which only the drawing reads, are left out).
BuildTrendInfo(prices) ==
    [ema20    |-> calculateEMA(prices, 20),
     ema50    |-> calculateEMA(prices, 50),
     change7d |-> Change7d(prices)]

Repeat(v, k) == [i \in 1..k |-> v]

\* The hourly price series the provider answers with here, of 51 samples: a step
\* up (EMA20 = 7 above EMA50 = 99/17) and a step down (EMA20 = 24 below
\* EMA50 = 428/17); and one of 21 samples, too short for EMA50.
SeriesUp == Repeat(Num(5), 50) \o <<Num(26)>>

SeriesDown == Repeat(Num(26), 50) \o <<Num(5)>>

SeriesShort == Repeat(Num(5), 20) \o <<Num(26)>>

Series == {SeriesUp, SeriesDown, SeriesShort}

\* BuildTrendInfo of each of these series, computed once.
TrendInfos == [p \in Series |-> BuildTrendInfo(p)]

\* newTrendData from the histories: a coin whose history request was not ok
\* (Null here) is filtered out and has no entry.
BuildTrendData(histories) ==
    [id \in {c \in CoinIds : histories[c] # Null} |-> TrendInfos[histories[id].prices]]

(* ------------------------------------------------------------------ *)
(* Rendering: the rotation list and the signal emitter                 *)
(* ------------------------------------------------------------------ *)

\* marketData[coin.id] / trendData[coin.id] as the render reads them.
MdOf(md, id) == IF md = Null THEN Undefined ELSE md[id]

TrendOf(td, id) ==
    IF td = Null THEN Undefined
    ELSE IF id \in DOMAIN td THEN td[id] ELSE Undefined

\* RotationScore weighting the momentum twice as well.
RotationScoreDoubled(md, td, coin) ==
    LET m      == MdOf(md, coin.id)
        price  == IF m = Undefined THEN Null ELSE Coalesce(m.price)
        change == IF m = Undefined THEN Null ELSE Coalesce(m.change24h)
    IN  2 * getMomentumScore(change) + 2 * getTrendScore(price, TrendOf(td, coin.id))

\* score = momentumScore + 2 * trendScore of one coin.
RotationScore(md, td, coin) ==
    LET m      == MdOf(md, coin.id)
        price  == IF m = Undefined THEN Null ELSE Coalesce(m.price)
        change == IF m = Undefined THEN Null ELSE Coalesce(m.change24h)
    IN  getMomentumScore(change) + 2 * getTrendScore(price, TrendOf(td, coin.id))

RotationItem(md, td, coin) == [coin |-> coin, score |-> RotationScore(md, td, coin)]

\* COINS.filter(coin => sectorFilter === "All" ? true : coin.sector === sectorFilter)
VisibleCoins(filter) ==
    SelectSeq(COINS, LAMBDA c : filter = "All" \/ c.sector = filter)

\* InsertItem as an unstable sort would place x: before elements of equal score too.
InsertItemUnstable(s, x) ==
    LET notLarger == {i \in 1..Len(s) : s[i].score <= x.score}
        at        == IF notLarger = {} THEN Len(s) + 1
                     ELSE CHOOSE i \in notLarger : \A j \in notLarger : i <= j
    IN  SubSeq(s, 1, at - 1) \o <<x>> \o SubSeq(s, at, Len(s))

\* Where a stable sort with (a, b) => b.score - a.score puts x into the already
\* sorted s: before the first element with a strictly smaller score.
InsertItem(s, x) ==
    LET smaller == {i \in 1..Len(s) : s[i].score < x.score}
        at      == IF smaller = {} THEN Len(s) + 1
                   ELSE CHOOSE i \in smaller : \A j \in smaller : i <= j
    IN  SubSeq(s, 1, at - 1) \o <<x>> \o SubSeq(s, at, Len(s))

RECURSIVE SortItemsFrom(_, _, _)
SortItemsFrom(s, i, acc) ==
    IF i > Len(s) THEN acc ELSE SortItemsFrom(s, i + 1, InsertItem(acc, s[i]))

\* Array.prototype.sort((a, b) => b.score - a.score): stable, descending.
SortItems(s) == SortItemsFrom(s, 1, <<>>)

\* rotationList of a render.
RotationList(md, td, filter) ==
    IF md # Null
    THEN LET vis == VisibleCoins(filter)
         IN  SortItems([i \in 1..Len(vis) |-> RotationItem(md, td, vis[i])])
    ELSE <<>>

\* items of a render: every coin of COINS, whatever the filter.
Items(md, td) == [i \in 1..Len(COINS) |-> RotationItem(md, td, COINS[i])]

RECURSIVE SumSeq(_)
SumSeq(s) == IF s = <<>> THEN 0 ELSE s[1] + SumSeq(Tail(s))

\* sectorMap[sector]: the scores pushed for that sector, in item order.
SectorScores(items, sector) ==
    LET mine == SelectSeq(items, LAMBDA it : it.coin.sector = sector)
    IN  [i \in 1..Len(mine) |-> mine[i].score]

\* Average with the division forgotten.
AverageSumOnly(arr) == Num(SumSeq(arr))

\* arr.reduce((a, b) => a + b, 0) / arr.length
Average(arr) == Rat(SumSeq(arr), Len(arr))

InsertStat(s, x) ==
    LET smaller == {i \in 1..Len(s) : Lt(s[i].avg, x.avg)}
        at      == IF smaller = {} THEN Len(s) + 1
                   ELSE CHOOSE i \in smaller : \A j \in smaller : i <= j
    IN  SubSeq(s, 1, at - 1) \o <<x>> \o SubSeq(s, at, Len(s))

RECURSIVE SortStatsFrom(_, _, _)
SortStatsFrom(s, i, acc) ==
    IF i > Len(s) THEN acc ELSE SortStatsFrom(s, i + 1, InsertStat(acc, s[i]))

\* .sort((a, b) => b.avg - a.avg)
SortStats(s) == SortStatsFrom(s, 1, <<>>)

\* Object.entries(sectorMap).filter(([_, arr]) => arr.length > 0).map(...).sort(...)
SectorStats(items) ==
    LET nonEmpty == SelectSeq(SectorOrder, LAMBDA s : Len(SectorScores(items, s)) > 0)
    IN  SortStats([i \in 1..Len(nonEmpty) |->
                     [sector |-> nonEmpty[i],
                      avg    |-> Average(SectorScores(items, nonEmpty[i]))]])

RECURSIVE Pow10(_)
Pow10(k) == IF k = 0 THEN 1 ELSE 10 * Pow10(k - 1)

\* Number.prototype.toFixed(digits): the sign and the number of 10^-digits units,
\* the nearest one, the larger of two equally near.
toFixed(x, digits) ==
    [neg   |-> x.n < 0,
     units |-> (2 * Abs(x.n) * Pow10(digits) + x.d) \div (2 * x.d),
     digits |-> digits]

\* items.reduce((best, cur) => cur.score > best.score ? cur : best)
RECURSIVE StrongestFrom(_, _, _)
StrongestFrom(items, i, best) ==
    IF i > Len(items) THEN best
    ELSE StrongestFrom(items, i + 1, IF items[i].score > best.score THEN items[i] ELSE best)

\* Strongest with >= for >: the last of several coins at the maximum.
RECURSIVE StrongestLastFrom(_, _, _)
StrongestLastFrom(items, i, best) ==
    IF i > Len(items) THEN best
    ELSE StrongestLastFrom(items, i + 1,
                           IF items[i].score >= best.score THEN items[i] ELSE best)

StrongestLast(items) == StrongestLastFrom(items, 2, items[1])

Strongest(items) == StrongestFrom(items, 2, items[1])

\* items.reduce((worst, cur) => cur.score < worst.score ? cur : worst)
RECURSIVE WeakestFrom(_, _, _)
WeakestFrom(items, i, worst) ==
    IF i > Len(items) THEN worst
    ELSE WeakestFrom(items, i + 1, IF items[i].score < worst.score THEN items[i] ELSE worst)

Weakest(items) == WeakestFrom(items, 2, items[1])

LeadingMsg(leader, second) ==
    [kind |-> "leading", sector |-> leader.sector, avg |-> toFixed(leader.avg, 1),
     second |-> second.sector, secondAvg |-> toFixed(second.avg, 1)]

AbandonedMsg(laggard) ==
    [kind |-> "abandoned", sector |-> laggard.sector, avg |-> toFixed(laggard.avg, 1)]

AccelerationMsg(strongest) ==
    [kind |-> "acceleration", symbol |-> strongest.coin.symbol,
     score |-> toFixed(Num(strongest.score), 0)]

CapitulationMsg(weakest) ==
    [kind |-> "capitulation", symbol |-> weakest.coin.symbol,
     score |-> toFixed(Num(weakest.score), 0)]

\* IsLeading with > 3 for >= 3.
IsLeadingStrict(leader, second) ==
    /\ Gt(leader.avg, Num(3))
    /\ ~Lt(Rat(leader.avg.n * second.avg.d - second.avg.n * leader.avg.d,
               leader.avg.d * second.avg.d),
           Rat(3, 2))

\* leader.avg >= 3 && leader.avg - second.avg >= 1.5
IsLeading(leader, second) ==
    /\ ~Lt(leader.avg, Num(3))
    /\ ~Lt(Rat(leader.avg.n * second.avg.d - second.avg.n * leader.avg.d,
               leader.avg.d * second.avg.d),
           Rat(3, 2))

\* laggard.avg <= -2
IsAbandoned(laggard) == ~Gt(laggard.avg, Num(-2))

\* SectorMessages with the laggard test outside the sectorStats.length >= 2 guard.
SectorMessagesLaggardUnguarded(items) ==
    LET stats == SectorStats(items)
    IN  (IF Len(stats) >= 2 /\ IsLeading(stats[1], stats[2])
         THEN <<LeadingMsg(stats[1], stats[2])>> ELSE <<>>)
        \o (IF Len(stats) >= 1 /\ IsAbandoned(stats[Len(stats)])
            THEN <<AbandonedMsg(stats[Len(stats)])>> ELSE <<>>)

\* The two sector messages, pushed only when sectorStats.length >= 2.
SectorMessages(items) ==
    LET stats == SectorStats(items)
    IN  IF Len(stats) >= 2
        THEN LET leader  == stats[1]
                 second  == stats[2]
                 laggard == stats[Len(stats)]
             IN  (IF IsLeading(leader, second) THEN <<LeadingMsg(leader, second)>> ELSE <<>>)
                 \o (IF IsAbandoned(laggard) THEN <<AbandonedMsg(laggard)>> ELSE <<>>)
        ELSE <<>>

\* The strongest / weakest coin messages.
CoinMessages(items) ==
    (IF Strongest(items).score >= 6 THEN <<AccelerationMsg(Strongest(items))>> ELSE <<>>)
    \o (IF Weakest(items).score <= -6 THEN <<CapitulationMsg(Weakest(items))>> ELSE <<>>)

\* EmitSignals with the coin messages pushed before the sector messages.
EmitSignalsCoinsFirst(items) ==
    IF Len(items) > 0 THEN CoinMessages(items) \o SectorMessages(items) ELSE <<>>

\* The body of `if (marketData && trendData)`, from items on.
EmitSignals(items) ==
    IF Len(items) > 0 THEN SectorMessages(items) \o CoinMessages(items) ELSE <<>>

\* signalMessages of a render.
SignalMessages(md, td) ==
    IF md # Null /\ td # Null THEN EmitSignals(Items(md, td)) ELSE <<>>

\* Render as it would be were the signal items built from the visible coins.
RenderSignalsOfVisible(md, td, filter) ==
    [rotationList   |-> RotationList(md, td, filter),
     signalMessages |->
        IF md # Null /\ td # Null
        THEN LET vis == VisibleCoins(filter)
             IN  EmitSignals([i \in 1..Len(vis) |-> RotationItem(md, td, vis[i])])
        ELSE <<>>]

\* What the body of Home derives from its state before it returns the JSX.
Render(md, td, filter) ==
    [rotationList   |-> RotationList(md, td, filter),
     signalMessages |-> SignalMessages(md, td)]

(* ------------------------------------------------------------------ *)
(* The provider's answers                                              *)
(* ------------------------------------------------------------------ *)

Quote(usd, change) == [usd |-> Num(usd), usd_24h_change |-> Num(change)]

History(prices) == [prices |-> prices]

Rejected == [kind |-> "rejected"]

NotOk == [kind |-> "notOk"]

Ok(body) == [kind |-> "ok", body |-> body]

\* Answers to the simple/price request in the refresh pipeline's specification.
SimpleAnswers ==
    {Rejected, NotOk,
     Ok([id \in CoinIds |-> Quote(10, 8)]),
     Ok([id \in CoinIds |-> IF id = "bitcoin" THEN Undefined ELSE Quote(10, -4)])}

\* Answers to the five market_chart requests, as Promise.all sees them: the
\* histories (Null for a request that was not ok), or a rejection.
HistoryAnswers ==
    {Rejected,
     Ok([id \in CoinIds |-> History(SeriesUp)]),
     Ok([id \in CoinIds |-> IF id = "chainlink" THEN Null
                             ELSE IF id = "solana" THEN History(SeriesShort)
                             ELSE History(SeriesDown)])}

\* The richer answers of the rendering specification: every coin on its own.
RenderQuotes == {Undefined, Quote(10, 8), Quote(10, -4)}

RenderHistories == {History(SeriesUp), History(SeriesDown)}

RenderSimpleAnswers == {Rejected} \cup {Ok(j) : j \in [CoinIds -> RenderQuotes]}

RenderHistoryAnswers == {Rejected} \cup {Ok(h) : h \in [CoinIds -> RenderHistories]}

\* err.message of the two failures.
StatusError == [message |-> "Failed to fetch current prices (status)"]

NetworkError == [message |-> "Failed to fetch"]

(* ------------------------------------------------------------------ *)
(* State                                                               *)
(* ------------------------------------------------------------------ *)

VARIABLES
    marketData,    \* useState: Null or the record of every coin's MarketData
    trendData,     \* useState: Null or the record of the TrendInfo of coins with a history
    loading,       \* useState
    error,         \* useState: Null or [message |-> the message]
    lastUpdated,   \* useState: Null or [time |-> fetchAll invocations started by then]
    sectorFilter,  \* useState
    cancelled,     \* the effect's closure variable
    intervalOn,    \* whether the setInterval timer is set
    calls,         \* the fetchAll invocations, in the order they started: where each one is
    mdRefresh,     \* history: the invocation whose newMarketData marketData holds (0: none)
    tdRefresh,     \* history: the invocation whose newTrendData trendData holds (0: none)
    items,         \* the signal emitter on its own: the items it is given
    emitted,       \* the signal emitter on its own: whether it has run, and its messages
    input,         \* a helper function on its own: the arguments it is given
    output,        \* a helper function on its own: Null, or what it returned
    pageMarketData, \* Page's useState: Null or the MarketMap
    pageLoading,   \* Page's useState
    errorMsg,      \* Page's useState: Null or [message |-> the message]
    raw,           \* history: Null, or the provider's JSON that load last parsed
    visibleIds,    \* Page's useState: the ids of the visible coins, an array
    storage,       \* localStorage's item crm_visible_ids: Null, or the text stored
    effects,       \* Page's pending effects: "mount" (the first commit's), "save", "none"
    savedAtStart,  \* history: the item as the session found it
    lastLoad       \* history: Null, or [raw, map] of the previous session's load

vars == <<marketData, trendData, loading, error, lastUpdated, sectorFilter, cancelled,
          intervalOn, calls, mdRefresh, tdRefresh, items, emitted, input, output,
          pageMarketData, pageLoading, errorMsg, raw, visibleIds, storage, effects,
          savedAtStart, lastLoad>>

emitterVars == <<items, emitted>>

helperVars == <<input, output>>

pageVars == <<pageMarketData, pageLoading, errorMsg, raw>>

\* The helper specifications and the Page component, not started.
HelpersIdle == input = Null /\ output = Null

PageIdle == pageMarketData = Null /\ pageLoading = TRUE /\ errorMsg = Null /\ raw = Null

sessionVars == <<visibleIds, storage, effects, savedAtStart, lastLoad>>

\* useState(COINS.map((c) => c.id))
DefaultVisibleIds == [i \in 1..Len(COINS) |-> COINS[i].id]

\* A first session with nothing stored, its mount effects done.
SessionIdle ==
    /\ visibleIds = DefaultVisibleIds
    /\ storage = Null
    /\ effects = "none"
    /\ savedAtStart = Null
    /\ lastLoad = Null

\* What a render of the current state computes.
visibleCoins == VisibleCoins(sectorFilter)

rotationList == Render(marketData, trendData, sectorFilter).rotationList

signalMessages == Render(marketData, trendData, sectorFilter).signalMessages

Init ==
    /\ marketData = Null
    /\ trendData = Null
    /\ loading = TRUE
    /\ error = Null
    /\ lastUpdated = Null
    /\ sectorFilter = "All"
    /\ cancelled = FALSE
    /\ intervalOn = FALSE
    /\ calls = <<>>
    /\ mdRefresh = 0
    /\ tdRefresh = 0
    /\ items = <<>>
    /\ emitted = [done |-> FALSE, messages |-> <<>>]
    /\ HelpersIdle
    /\ PageIdle
    /\ SessionIdle

(* ------------------------------------------------------------------ *)
(* The refresh pipeline                                                *)
(* ------------------------------------------------------------------ *)

\* fetchAll up to its first await.
FetchAllStart ==
    /\ calls' = Append(calls, "simple")
    /\ loading' = IF cancelled THEN loading ELSE TRUE
    /\ error' = IF cancelled THEN error ELSE Null

\* The effect: let cancelled = false; fetchAll(); setInterval(fetchAll, 300_000).
Mount ==
    /\ calls = <<>>
    /\ ~cancelled
    /\ FetchAllStart
    /\ intervalOn' = TRUE
    /\ UNCHANGED <<marketData, trendData, lastUpdated, sectorFilter, cancelled,
                   mdRefresh, tdRefresh, emitterVars, helperVars, pageVars, sessionVars>>

\* The interval fires.
Tick ==
    /\ intervalOn
    /\ Len(calls) < MaxRefreshes
    /\ FetchAllStart
    /\ UNCHANGED <<marketData, trendData, lastUpdated, sectorFilter, cancelled,
                   intervalOn, mdRefresh, tdRefresh, emitterVars, helperVars, pageVars, sessionVars>>

\* The effect's cleanup: cancelled = true; clearInterval(interval).
Cleanup ==
    /\ calls # <<>>
    /\ ~cancelled
    /\ cancelled' = TRUE
    /\ intervalOn' = FALSE
    /\ UNCHANGED <<marketData, trendData, loading, error, lastUpdated, sectorFilter,
                   calls, mdRefresh, tdRefresh, emitterVars, helperVars, pageVars, sessionVars>>

\* catch (err) { ... } finally { ... } of invocation r.
Catch(r, err) ==
    /\ calls' = [calls EXCEPT ![r] = "failed"]
    /\ error' = IF cancelled THEN error ELSE [message |-> err.message]
    /\ loading' = IF cancelled THEN loading ELSE FALSE

\* Invocation r's await fetch(simpleUrl) settles with answer a.
SimpleResolve(r, a) ==
    /\ calls[r] = "simple"
    /\ IF a.kind = "ok"
       THEN /\ calls' = [calls EXCEPT ![r] = "history"]
            /\ marketData' = IF cancelled THEN marketData ELSE BuildMarketData(a.body)
            /\ mdRefresh' = IF cancelled THEN mdRefresh ELSE r
            /\ UNCHANGED <<loading, error>>
       ELSE /\ Catch(r, IF a.kind = "notOk" THEN StatusError ELSE NetworkError)
            /\ UNCHANGED <<marketData, mdRefresh>>
    /\ UNCHANGED <<trendData, lastUpdated, sectorFilter, cancelled, intervalOn,
                   tdRefresh, emitterVars, helperVars, pageVars, sessionVars>>

\* HistoriesResolve without the if (!cancelled) guards of its setters.
HistoriesResolveUnguarded(r, a) ==
    /\ calls[r] = "history"
    /\ IF a.kind = "ok"
       THEN /\ calls' = [calls EXCEPT ![r] = "done"]
            /\ trendData' = BuildTrendData(a.body)
            /\ lastUpdated' = [time |-> Len(calls)]
            /\ tdRefresh' = r
            /\ loading' = FALSE
            /\ UNCHANGED error
       ELSE /\ Catch(r, NetworkError)
            /\ UNCHANGED <<trendData, lastUpdated, tdRefresh>>
    /\ UNCHANGED <<marketData, sectorFilter, cancelled, intervalOn, mdRefresh, emitterVars, helperVars, pageVars, sessionVars>>

\* Invocation r's await Promise.all(historyPromises) settles with answer a.
HistoriesResolve(r, a) ==
    /\ calls[r] = "history"
    /\ IF a.kind = "ok"
       THEN /\ calls' = [calls EXCEPT ![r] = "done"]
            /\ trendData' = IF cancelled THEN trendData ELSE BuildTrendData(a.body)
            /\ lastUpdated' = IF cancelled THEN lastUpdated ELSE [time |-> Len(calls)]
            /\ tdRefresh' = IF cancelled THEN tdRefresh ELSE r
            /\ loading' = IF cancelled THEN loading ELSE FALSE
            /\ UNCHANGED error
       ELSE /\ Catch(r, NetworkError)
            /\ UNCHANGED <<trendData, lastUpdated, tdRefresh>>
    /\ UNCHANGED <<marketData, sectorFilter, cancelled, intervalOn, mdRefresh, emitterVars, helperVars, pageVars, sessionVars>>

\* onClick={() => setSectorFilter(sector)}
SetSectorFilter(f) ==
    /\ ~cancelled
    /\ sectorFilter' = f
    /\ UNCHANGED <<marketData, trendData, loading, error, lastUpdated, cancelled,
                   intervalOn, calls, mdRefresh, tdRefresh, emitterVars, helperVars, pageVars, sessionVars>>

Next ==
    \/ Mount
    \/ Tick
    \/ Cleanup
    \/ \E f \in Filters : SetSectorFilter(f)
    \/ \E r \in 1..Len(calls), a \in SimpleAnswers : SimpleResolve(r, a)
    \/ \E r \in 1..Len(calls), a \in HistoryAnswers : HistoriesResolve(r, a)

Spec == Init /\ [][Next]_vars

(* ------------------------------------------------------------------ *)
(* One refresh over every combination of per-coin answers              *)
(* ------------------------------------------------------------------ *)

NextRender ==
    \/ Mount
    \/ \E f \in Filters : SetSectorFilter(f)
    \/ \E r \in 1..Len(calls), a \in RenderSimpleAnswers : SimpleResolve(r, a)
    \/ \E r \in 1..Len(calls), a \in RenderHistoryAnswers : HistoriesResolve(r, a)

SpecRender == Init /\ [][NextRender]_vars

(* ------------------------------------------------------------------ *)
(* The signal emitter on its own, over every short list of items       *)
(* ------------------------------------------------------------------ *)

\* Rotation scores the items carry (each is momentumScore + 2 * trendScore of
\* some inputs): the thresholds 6, -6 and -2, and values around them.
EmitterScores == {-6, -2, 0, 1, 4, 6, 7}

\* The i-th coin of an edited COINS list, in the given sector.
EmitterItem(i, sector, score) ==
    [coin |-> [id |-> i, symbol |-> i, sector |-> sector], score |-> score]

\* Not yet run, and run with these messages.
Pending == [done |-> FALSE, messages |-> <<>>]

Done(messages) == [done |-> TRUE, messages |-> messages]

InitEmitter ==
    /\ marketData = Null
    /\ trendData = Null
    /\ loading = TRUE
    /\ error = Null
    /\ lastUpdated = Null
    /\ sectorFilter = "All"
    /\ cancelled = FALSE
    /\ intervalOn = FALSE
    /\ calls = <<>>
    /\ mdRefresh = 0
    /\ tdRefresh = 0
    /\ \E n \in 0..MaxItems : \E f \in [1..n -> Sectors \X EmitterScores] :
           items = [i \in 1..n |-> EmitterItem(i, f[i][1], f[i][2])]
    /\ emitted = Pending
    /\ HelpersIdle
    /\ PageIdle
    /\ SessionIdle

\* The emitter runs on the items.
Emit ==
    /\ emitted = Pending
    /\ emitted' = Done(EmitSignals(items))
    /\ UNCHANGED <<marketData, trendData, loading, error, lastUpdated, sectorFilter,
                   cancelled, intervalOn, calls, mdRefresh, tdRefresh, items,
                   helperVars, pageVars, sessionVars>>

NextEmitter == Emit

SpecEmitter == InitEmitter /\ [][NextEmitter]_vars

(* ------------------------------------------------------------------ *)
(* Claims about the refresh pipeline (Spec)                            *)
(* ------------------------------------------------------------------ *)

\* C1: only the most recently started refresh is applied: once a later fetchAll
\* has set marketData or trendData, no earlier fetchAll's result replaces it, so
\* the invocation a snapshot part comes from never goes back to an earlier one.
C1_LatestRefreshWins ==
    [][mdRefresh' >= mdRefresh /\ tdRefresh' >= tdRefresh]_vars

\* C2: there is no partial update: in every state (each can be rendered),
\* marketData and trendData were produced by the same refresh (or by none yet).
C2_NoPartialUpdate == mdRefresh = tdRefresh

\* C3: a refresh that failed has left the stored snapshot as it was: neither
\* marketData nor trendData holds data of a failed refresh, so no render runs
\* the scoring functions on it.
C3_FailedRefreshLeavesSnapshot ==
    \A r \in 1..Len(calls) : calls[r] = "failed" => mdRefresh # r /\ tdRefresh # r

(* ------------------------------------------------------------------ *)
(* Claims about a render (SpecRender)                                  *)
(* ------------------------------------------------------------------ *)

\* The positions in COINS of the coins that pass the sector filter.
Passing == {i \in 1..Len(COINS) : sectorFilter = "All" \/ COINS[i].sector = sectorFilter}

CoinIndex(coin) == CHOOSE i \in 1..Len(COINS) : COINS[i] = coin

\* C4: the signal messages are computed over all COINS whatever the display
\* filter: with marketData and trendData as they are, every value of sectorFilter
\* gives the signalMessages of the current render, while the rotationList it gives
\* holds only coins of the selected sector.
C4_SignalsIgnoreFilter ==
    \A f \in Filters : \A r \in {Render(marketData, trendData, f)} :
        /\ r.signalMessages = signalMessages
        /\ \A j \in 1..Len(r.rotationList) :
              f = "All" \/ r.rotationList[j].coin.sector = f

\* The Oracle filter is on, the list shows LINK alone, and a message is about BTC.
C4_Witness ==
    /\ sectorFilter = "Oracle"
    /\ Len(rotationList) = 1
    /\ \E msgs \in {signalMessages} : \E i \in 1..Len(msgs) :
          msgs[i].kind = "acceleration" /\ msgs[i].symbol = "BTC"

\* C5: once there is market data, rotationList is a permutation of the coins that
\* pass the sector filter, each once, in non-increasing order of rotation score,
\* coins of equal score in their COINS order.
C5_LeaderboardStableSort ==
    marketData # Null =>
      \A rl \in {rotationList} :
        /\ Len(rl) = Cardinality(Passing)
        /\ \A i \in Passing : \E j \in 1..Len(rl) : rl[j].coin = COINS[i]
        /\ \A j \in 1..Len(rl) :
              rl[j].score = RotationScore(marketData, trendData, rl[j].coin)
        /\ \A j, k \in 1..Len(rl) :
              j < k =>
                 /\ rl[j].score >= rl[k].score
                 /\ rl[j].score = rl[k].score
                       => CoinIndex(rl[j].coin) < CoinIndex(rl[k].coin)

\* The sort moved a coin up past others, and two coins tie.
C5_Witness ==
    /\ marketData # Null
    /\ \E rl \in {rotationList} :
          /\ \E j, k \in 1..Len(rl) :
                j < k /\ CoinIndex(rl[j].coin) > CoinIndex(rl[k].coin)
          /\ \E j, k \in 1..Len(rl) : j < k /\ rl[j].score = rl[k].score

(* ------------------------------------------------------------------ *)
(* Claims about the signal emitter (SpecEmitter)                       *)
(* ------------------------------------------------------------------ *)

\* The sectors with members among the items, and each one's count and sum.
Members(s) == {i \in 1..Len(items) : items[i].coin.sector = s}

NonEmpty == {s \in Sectors : Members(s) # {}}

Count(s) == Cardinality(Members(s))

RECURSIVE SumOf(_)
SumOf(idx) ==
    IF idx = {} THEN 0
    ELSE LET i == CHOOSE i \in idx : TRUE IN items[i].score + SumOf(idx \ {i})

Sum(s) == SumOf(Members(s))

\* mean(a) <= mean(b), and mean(a) - mean(b) >= 3/2, of two non-empty sectors.
MeanLeq(a, b) == Sum(a) * Count(b) <= Sum(b) * Count(a)

MeanGap(a, b) == 2 * (Sum(a) * Count(b) - Sum(b) * Count(a)) >= 3 * Count(a) * Count(b)

\* shown is the mean of sector s to one decimal: sum/count is within 0.05 of it.
Shows(shown, s) ==
    /\ shown.digits = 1
    /\ shown.neg = (Sum(s) < 0)
    /\ 2 * Abs(10 * Abs(Sum(s)) - shown.units * Count(s)) <= Count(s)

OfKind(msgs, kind) == {msgs[i] : i \in {j \in 1..Len(msgs) : msgs[j].kind = kind}}

\* C6: with at least two non-empty sectors, the 'clearly leading' message is
\* emitted iff the highest sector average is >= 3 and exceeds the second-highest
\* by >= 1.5, and it names the leader and the second-place sector with their
\* averages.
C6_LeadingMessage ==
    (emitted.done /\ Cardinality(NonEmpty) >= 2) =>
      \A lead \in {OfKind(emitted.messages, "leading")} :
        /\ lead # {} <=>
              \E l \in NonEmpty :
                  /\ Sum(l) >= 3 * Count(l)
                  /\ \A o \in NonEmpty \ {l} : MeanGap(l, o)
        /\ \A m \in lead :
              /\ m.sector \in NonEmpty
              /\ m.second \in NonEmpty \ {m.sector}
              /\ \A o \in NonEmpty : MeanLeq(o, m.sector)
              /\ \A o \in NonEmpty \ {m.sector} : MeanLeq(o, m.second)
              /\ Shows(m.avg, m.sector)
              /\ Shows(m.secondAvg, m.second)

\* The spec's scenario: averages 4.0 and 1.0 emit the message.
C6_Witness ==
    /\ emitted.done
    /\ \E m \in OfKind(emitted.messages, "leading") :
          m.avg.units = 40 /\ m.secondAvg.units = 10

\* C7: averageScore is the arithmetic mean of the sector's scores, sectors
\* without coins are skipped, and with at least two non-empty sectors the
\* 'abandoned' message is emitted iff the lowest-ranked sector's average is <= -2,
\* naming that sector.
C7_AbandonedMessage ==
    emitted.done =>
      \A stats \in {SectorStats(items)} : \A gone \in {OfKind(emitted.messages, "abandoned")} :
        /\ Len(stats) = Cardinality(NonEmpty)
        /\ \A s \in NonEmpty : \E i \in 1..Len(stats) : stats[i].sector = s
        /\ \A i \in 1..Len(stats) :
              stats[i].avg.n * Count(stats[i].sector) = Sum(stats[i].sector) * stats[i].avg.d
        /\ Cardinality(NonEmpty) >= 2 =>
              /\ gone # {} <=> \E s \in NonEmpty : Sum(s) <= (-2) * Count(s)
              /\ \A m \in gone :
                    /\ m.sector = stats[Len(stats)].sector
                    /\ \A o \in NonEmpty : MeanLeq(m.sector, o)
                    /\ Shows(m.avg, m.sector)
        /\ Cardinality(NonEmpty) < 2 => gone = {}

\* The abandoned sector has two coins, one above -2 and one below: the mean of
\* the two is what crosses the threshold.
C7_Witness ==
    /\ emitted.done
    /\ \E m \in OfKind(emitted.messages, "abandoned") :
          /\ Count(m.sector) = 2
          /\ \E i, j \in Members(m.sector) : items[i].score > -2 /\ items[j].score < -2

\* The extremes over all the items, and the first item at a given score.
MaxScore == CHOOSE v \in {items[i].score : i \in 1..Len(items)} :
                \A i \in 1..Len(items) : items[i].score <= v

MinScore == CHOOSE v \in {items[i].score : i \in 1..Len(items)} :
                \A i \in 1..Len(items) : items[i].score >= v

FirstAt(v) == CHOOSE i \in 1..Len(items) :
                  items[i].score = v /\ \A j \in 1..(i - 1) : items[j].score # v

\* C8: whatever the sectors, the 'acceleration' message is emitted iff the
\* maximum score over all items is >= 6 and the 'capitulation' message iff the
\* minimum is <= -6; each names the first coin, in list order, at that extreme,
\* with that score.
C8_CoinMessages ==
    (emitted.done /\ Len(items) > 0) =>
      \A acc \in {OfKind(emitted.messages, "acceleration")} :
      \A cap \in {OfKind(emitted.messages, "capitulation")} :
        /\ acc # {} <=> MaxScore >= 6
        /\ cap # {} <=> MinScore <= -6
        /\ \A m \in acc :
              /\ m.symbol = items[FirstAt(MaxScore)].coin.symbol
              /\ m.score = [neg |-> FALSE, units |-> MaxScore, digits |-> 0]
        /\ \A m \in cap :
              /\ m.symbol = items[FirstAt(MinScore)].coin.symbol
              /\ m.score = [neg |-> TRUE, units |-> -MinScore, digits |-> 0]

\* Both messages are emitted, and two coins tie at the maximum.
C8_Witness ==
    /\ emitted.done
    /\ OfKind(emitted.messages, "acceleration") # {}
    /\ OfKind(emitted.messages, "capitulation") # {}
    /\ Cardinality({i \in 1..Len(items) : items[i].score = MaxScore}) >= 2

KindRank(kind) ==
    CASE kind = "leading" -> 1
      [] kind = "abandoned" -> 2
      [] kind = "acceleration" -> 3
      [] kind = "capitulation" -> 4

\* C9: the emitted sequence is a subsequence of [leading, abandoned,
\* acceleration, capitulation]: the kinds appear in that order, each at most once.
C9_MessageOrder ==
    emitted.done =>
      \A i, j \in 1..Len(emitted.messages) :
          i < j => KindRank(emitted.messages[i].kind) < KindRank(emitted.messages[j].kind)

\* All four messages at once.
C9_Witness == emitted.done /\ Len(emitted.messages) = 4

\* C10: with fewer than two sectors with members the emitter completes and emits
\* neither the leading nor the abandoned message; only the coin messages can
\* appear, and with no coin threshold crossed the result is empty.
C10_FewerThanTwoSectors ==
    (emitted.done /\ Cardinality(NonEmpty) < 2) =>
      /\ \A i \in 1..Len(emitted.messages) :
            emitted.messages[i].kind \in {"acceleration", "capitulation"}
      /\ (\A i \in 1..Len(items) : items[i].score < 6 /\ items[i].score > -6)
            => emitted.messages = <<>>

\* One sector alone, with an average that would lead (>= 3) and one coin at the
\* acceleration threshold: only the coin message is emitted.
C10_Witness ==
    /\ emitted.done
    /\ Cardinality(NonEmpty) = 1
    /\ Len(items) >= 2
    /\ \E s \in NonEmpty : Sum(s) >= 3 * Count(s)
    /\ Len(emitted.messages) = 1
    /\ emitted.messages[1].kind = "acceleration"

(* ------------------------------------------------------------------ *)
(* The Page component: signal helpers                                  *)
(* ------------------------------------------------------------------ *)

\* Arithmetic on numbers; NaN is absorbing.
Add(x, y) == IF IsNaN(x) \/ IsNaN(y) THEN NaN ELSE Rat(x.n * y.d + y.n * x.d, x.d * y.d)

Sub(x, y) == IF IsNaN(x) \/ IsNaN(y) THEN NaN ELSE Rat(x.n * y.d - y.n * x.d, x.d * y.d)

Mul(x, y) == IF IsNaN(x) \/ IsNaN(y) THEN NaN ELSE Rat(x.n * y.n, x.d * y.d)

\* x / k for a non-zero integer k.
DivBy(x, k) == IF IsNaN(x) THEN NaN ELSE Rat(x.n, x.d * k)

\* JavaScript's >= and <= on numbers: false whenever an operand is NaN.
Geq(x, y) == ~IsNaN(x) /\ ~IsNaN(y) /\ x.n * y.d >= y.n * x.d

Leq(x, y) == Geq(y, x)

\* change === null || Number.isNaN(change)
Absent(change) == change = Null \/ IsNaN(change)

\* Page_getSentiment with >= 3 for > 3.
Page_getSentimentInclusive(change24h) ==
    IF Absent(change24h) THEN "Neutral"
    ELSE IF Geq(change24h, Num(3)) THEN "Strong Bullish"
    ELSE IF Gt(change24h, Rat(1, 2)) THEN "Bullish"
    ELSE IF Lt(change24h, Num(-3)) THEN "Strong Bearish"
    ELSE IF Lt(change24h, Rat(-1, 2)) THEN "Bearish"
    ELSE "Neutral"

Page_getSentiment(change24h) ==
    IF Absent(change24h) THEN "Neutral"
    ELSE IF Gt(change24h, Num(3)) THEN "Strong Bullish"
    ELSE IF Gt(change24h, Rat(1, 2)) THEN "Bullish"
    ELSE IF Lt(change24h, Num(-3)) THEN "Strong Bearish"
    ELSE IF Lt(change24h, Rat(-1, 2)) THEN "Bearish"
    ELSE "Neutral"

\* Page_getTrendLabel without the null test: null compares like 0.
Page_getTrendLabelUnguarded(change7d) ==
    IF change7d = Null \/ IsNaN(change7d) THEN "Sideways"
    ELSE IF Gt(change7d, Num(15)) THEN "Strong Uptrend"
    ELSE IF Gt(change7d, Num(5)) THEN "Uptrend"
    ELSE IF Lt(change7d, Num(-15)) THEN "Strong Downtrend"
    ELSE IF Lt(change7d, Num(-5)) THEN "Downtrend"
    ELSE "Sideways"

\* Page_getTrendLabel with the Uptrend threshold at >= 5.
Page_getTrendLabelInclusive(change7d) ==
    IF Absent(change7d) THEN "Unknown"
    ELSE IF Gt(change7d, Num(15)) THEN "Strong Uptrend"
    ELSE IF Geq(change7d, Num(5)) THEN "Uptrend"
    ELSE IF Lt(change7d, Num(-15)) THEN "Strong Downtrend"
    ELSE IF Lt(change7d, Num(-5)) THEN "Downtrend"
    ELSE "Sideways"

Page_getTrendLabel(change7d) ==
    IF Absent(change7d) THEN "Unknown"
    ELSE IF Gt(change7d, Num(15)) THEN "Strong Uptrend"
    ELSE IF Gt(change7d, Num(5)) THEN "Uptrend"
    ELSE IF Lt(change7d, Num(-15)) THEN "Strong Downtrend"
    ELSE IF Lt(change7d, Num(-5)) THEN "Downtrend"
    ELSE "Sideways"

\* getTrendPhase with the thresholds 15, 7 and 2 of an earlier version of the page.
getTrendPhaseEarlier(change7d) ==
    IF Absent(change7d) THEN "Unknown"
    ELSE IF Gt(change7d, Num(15)) THEN "Parabolic Uptrend"
    ELSE IF Gt(change7d, Num(7)) THEN "Expansion Phase"
    ELSE IF Gt(change7d, Num(2)) THEN "Early Uptrend"
    ELSE IF Lt(change7d, Num(-15)) THEN "Capitulation"
    ELSE IF Lt(change7d, Num(-7)) THEN "Sharp Downtrend"
    ELSE IF Lt(change7d, Num(-2)) THEN "Grinding Downtrend"
    ELSE "Range / Compression"

getTrendPhase(change7d) ==
    IF Absent(change7d) THEN "Unknown"
    ELSE IF Gt(change7d, Num(20)) THEN "Parabolic Uptrend"
    ELSE IF Gt(change7d, Num(10)) THEN "Expansion Phase"
    ELSE IF Gt(change7d, Num(3)) THEN "Early Uptrend"
    ELSE IF Lt(change7d, Num(-20)) THEN "Capitulation"
    ELSE IF Lt(change7d, Num(-10)) THEN "Sharp Downtrend"
    ELSE IF Lt(change7d, Num(-3)) THEN "Grinding Downtrend"
    ELSE "Range / Compression"

\* getAccelerationLabel comparing with the 7d change itself, not its daily average.
getAccelerationLabelNoAverage(change24h, change7d) ==
    IF Absent(change24h) \/ Absent(change7d) THEN "No clear acceleration"
    ELSE IF Gt(change24h, Add(change7d, Num(3))) THEN "Short-term acceleration"
    ELSE IF Lt(change24h, Sub(change7d, Num(3))) THEN "Short-term deceleration"
    ELSE "Stable vs recent trend"

getAccelerationLabel(change24h, change7d) ==
    IF Absent(change24h) \/ Absent(change7d) THEN "No clear acceleration"
    ELSE LET dailyAvg == DivBy(change7d, 7)
         IN  IF Gt(change24h, Add(dailyAvg, Num(3))) THEN "Short-term acceleration"
             ELSE IF Lt(change24h, Sub(dailyAvg, Num(3))) THEN "Short-term deceleration"
             ELSE "Stable vs recent trend"

\* Page_getTrendScore dividing by 2, as an earlier version of the page did.
Page_getTrendScoreHalf(change7d) == IF Absent(change7d) THEN Num(0) ELSE DivBy(change7d, 2)

Page_getTrendScore(change7d) == IF Absent(change7d) THEN Num(0) ELSE DivBy(change7d, 4)

Page_getMomentumScore(change24h) == IF Absent(change24h) THEN Num(0) ELSE DivBy(change24h, 3)

\* getTrafficLight with > 6 for >= 6.
getTrafficLightStrict(rotationScore) ==
    IF Gt(rotationScore, Num(6)) THEN "Green"
    ELSE IF Leq(rotationScore, Num(-2)) THEN "Red"
    ELSE "Yellow"

\* The label's colour word stands for the whole {label, color, bg, border}.
getTrafficLight(rotationScore) ==
    IF Geq(rotationScore, Num(6)) THEN "Green"
    ELSE IF Leq(rotationScore, Num(-2)) THEN "Red"
    ELSE "Yellow"

\* What the card of one coin computes from its MarketEntry.
Card(entry) ==
    LET price     == Coalesce(entry.price)
        change24h == Coalesce(entry.change24h)
        change7d  == Coalesce(entry.change7d)
    IN  IF Absent(price) THEN [placeholder |-> TRUE]
        ELSE LET trendScore    == Page_getTrendScore(change7d)
                 momentumScore == Page_getMomentumScore(change24h)
                 rotationScore == Add(Mul(trendScore, Num(2)), momentumScore)
             IN  [placeholder       |-> FALSE,
                  sentiment         |-> Page_getSentiment(change24h),
                  trendLabel        |-> Page_getTrendLabel(change7d),
                  trendScore        |-> trendScore,
                  momentumScore     |-> momentumScore,
                  rotationScore     |-> rotationScore,
                  trendPhase        |-> getTrendPhase(change7d),
                  accelerationLabel |-> getAccelerationLabel(change24h, change7d),
                  traffic           |-> getTrafficLight(rotationScore)]

(* ------------------------------------------------------------------ *)
(* One card over every entry                                           *)
(* ------------------------------------------------------------------ *)

homeVars == <<marketData, trendData, loading, error, lastUpdated, sectorFilter,
              cancelled, intervalOn, calls, mdRefresh, tdRefresh>>

\* The Home component and the emitter, not started.
HomeIdle ==
    /\ marketData = Null
    /\ trendData = Null
    /\ loading = TRUE
    /\ error = Null
    /\ lastUpdated = Null
    /\ sectorFilter = "All"
    /\ cancelled = FALSE
    /\ intervalOn = FALSE
    /\ calls = <<>>
    /\ mdRefresh = 0
    /\ tdRefresh = 0

EmitterIdle == items = <<>> /\ emitted = Pending

\* The 24h and 7d changes of the entry: absent, NaN, and the numbers at and
\* around each helper's thresholds.
Changes24h ==
    {Null, NaN} \cup {Rat(n, 2) : n \in {-16, -8, -7, -6, -3, -2, -1, 0, 1, 2, 6, 7, 8, 10, 16}}

Changes7d ==
    {Null, NaN} \cup
    {Num(n) : n \in {-25, -20, -15, -12, -10, -7, -5, -3, 0, 3, 5, 7, 10, 12, 15, 18, 20, 25}}

Prices == {Null, Num(10)}

InitCard ==
    /\ HomeIdle
    /\ EmitterIdle
    /\ PageIdle
    /\ SessionIdle
    /\ \E p \in Prices, c24 \in Changes24h, c7 \in Changes7d :
           input = [price |-> p, change24h |-> c24, change7d |-> c7]
    /\ output = Null

\* {visibleCoins.map((coin) => ...)}: the card of the entry.
RenderCard ==
    /\ output = Null
    /\ output' = Card(input)
    /\ UNCHANGED <<homeVars, emitterVars, pageVars, sessionVars, input>>

NextCard == RenderCard

SpecCard == InitCard /\ [][NextCard]_vars

(* ------------------------------------------------------------------ *)
(* Claims about the Page component's helpers (SpecCard)                *)
(* ------------------------------------------------------------------ *)

\* A card has been computed, not the placeholder.
Carded == output # Null /\ ~output.placeholder

\* Is the input number at hand? (not absent, not NaN)
Known(x) == x # Null /\ x # NaN

\* x > k and x < k for a known number x and an integer k given in halves.
AboveHalves(x, h) == 2 * x.n > h * x.d

BelowHalves(x, h) == 2 * x.n < h * x.d

\* C11: for every numeric change24h getSentiment returns exactly the label of the
\* table: > 3 Strong Bullish; > 0.5 Bullish; < -3 Strong Bearish; < -0.5 Bearish;
\* otherwise Neutral. Boundaries are strict: 3 gives Bullish, 0.5 and -0.5 give
\* Neutral, -3 gives Bearish.
C11_SentimentTable ==
    (Carded /\ Known(input.change24h)) =>
      \A x \in {input.change24h} :
        /\ output.sentiment = "Strong Bullish" <=> AboveHalves(x, 6)
        /\ output.sentiment = "Bullish" <=> (AboveHalves(x, 1) /\ ~AboveHalves(x, 6))
        /\ output.sentiment = "Strong Bearish" <=> BelowHalves(x, -6)
        /\ output.sentiment = "Bearish" <=> (BelowHalves(x, -1) /\ ~BelowHalves(x, -6))
        /\ output.sentiment = "Neutral" <=> (~AboveHalves(x, 1) /\ ~BelowHalves(x, -1))

\* The boundary 3 gives Bullish.
C11_Witness == Carded /\ input.change24h = Num(3) /\ output.sentiment = "Bullish"

\* C12: getSentiment returns Unknown when change24h is absent (null) or NaN, never
\* one of the five labels numeric inputs produce.
C12_SentimentUnknown ==
    (Carded /\ ~Known(input.change24h)) =>
        /\ output.sentiment = "Unknown"
        /\ output.sentiment \notin
               {"Strong Bullish", "Bullish", "Neutral", "Bearish", "Strong Bearish"}

\* x > k and x < k for a known number x and an integer k.
Above(x, k) == x.n > k * x.d

Below(x, k) == x.n < k * x.d

\* C13: getTrendLabel returns Unknown when change7d is absent or NaN, and otherwise
\* exactly one label: > 15 Strong Uptrend; > 5 Uptrend; < -15 Strong Downtrend;
\* < -5 Downtrend; else Sideways (15 gives Uptrend, 5 gives Sideways).
C13_TrendLabelTable ==
    Carded =>
      \A x \in {input.change7d} :
        /\ output.trendLabel = "Unknown" <=> ~Known(x)
        /\ Known(x) =>
            /\ output.trendLabel = "Strong Uptrend" <=> Above(x, 15)
            /\ output.trendLabel = "Uptrend" <=> (Above(x, 5) /\ ~Above(x, 15))
            /\ output.trendLabel = "Strong Downtrend" <=> Below(x, -15)
            /\ output.trendLabel = "Downtrend" <=> (Below(x, -5) /\ ~Below(x, -15))
            /\ output.trendLabel = "Sideways" <=> (~Above(x, 5) /\ ~Below(x, -5))

\* The boundary 5 gives Sideways.
C13_Witness == Carded /\ input.change7d = Num(5) /\ output.trendLabel = "Sideways"

\* C14: getTrendPhase returns Unknown when change7d is absent or NaN, and otherwise
\* exactly one label: > 20 Parabolic; > 10 Expansion; > 3 Early Uptrend;
\* < -20 Capitulation; < -10 Sharp Downtrend; < -3 Grinding Downtrend;
\* else Range/Compression.
C14_TrendPhaseTable ==
    Carded =>
      \A x \in {input.change7d} :
        /\ output.trendPhase = "Unknown" <=> ~Known(x)
        /\ Known(x) =>
            /\ output.trendPhase = "Parabolic Uptrend" <=> Above(x, 20)
            /\ output.trendPhase = "Expansion Phase" <=> (Above(x, 10) /\ ~Above(x, 20))
            /\ output.trendPhase = "Early Uptrend" <=> (Above(x, 3) /\ ~Above(x, 10))
            /\ output.trendPhase = "Capitulation" <=> Below(x, -20)
            /\ output.trendPhase = "Sharp Downtrend" <=> (Below(x, -10) /\ ~Below(x, -20))
            /\ output.trendPhase = "Grinding Downtrend" <=> (Below(x, -3) /\ ~Below(x, -10))
            /\ output.trendPhase = "Range / Compression" <=> (~Above(x, 3) /\ ~Below(x, -3))

\* A 7d change of 12: Expansion, between the thresholds 10 and 20.
C14_Witness == Carded /\ input.change7d = Num(12) /\ output.trendPhase = "Expansion Phase"

\* change24h > change7d / 7 + k and change24h < change7d / 7 + k, for known numbers.
AboveDailyAvg(c24, c7, k) == 7 * c24.n * c7.d > c24.d * (c7.n + 7 * k * c7.d)

BelowDailyAvg(c24, c7, k) == 7 * c24.n * c7.d < c24.d * (c7.n + 7 * k * c7.d)

\* C15: getAccelerationLabel returns its unknown label (No clear acceleration)
\* when change24h or change7d is absent; otherwise, with dailyAvg = change7d / 7,
\* Short-term acceleration iff change24h > dailyAvg + 3, Short-term deceleration
\* iff change24h < dailyAvg - 3, and Stable vs recent trend otherwise.
C15_AccelerationLabel ==
    Carded =>
      \A c24 \in {input.change24h} : \A c7 \in {input.change7d} :
        /\ output.accelerationLabel = "No clear acceleration" <=> (~Known(c24) \/ ~Known(c7))
        /\ (Known(c24) /\ Known(c7)) =>
            /\ output.accelerationLabel = "Short-term acceleration"
                  <=> AboveDailyAvg(c24, c7, 3)
            /\ output.accelerationLabel = "Short-term deceleration"
                  <=> BelowDailyAvg(c24, c7, -3)
            /\ output.accelerationLabel = "Stable vs recent trend"
                  <=> (~AboveDailyAvg(c24, c7, 3) /\ ~BelowDailyAvg(c24, c7, -3))

\* 8% in a day against 18% in the week (2.57 a day): acceleration.
C15_Witness ==
    /\ Carded
    /\ input.change24h = Num(8)
    /\ input.change7d = Num(18)
    /\ output.accelerationLabel = "Short-term acceleration"

\* C17: rotationScore = trendScore * 2 + momentumScore with trendScore =
\* change7d / 4 and momentumScore = change24h / 3, an unknown input contributing
\* 0; for known inputs rotationScore = change7d / 2 + change24h / 3
\* (change24h = 8, change7d = 18: trendScore 4.5, rotationScore 35/3, Green).
C17_RotationScore ==
    Carded =>
      \A c24 \in {input.change24h} : \A c7 \in {input.change7d} :
      \A half \in {IF Known(c7) THEN c7 ELSE Num(0)} :
      \A third \in {IF Known(c24) THEN c24 ELSE Num(0)} :
        /\ 4 * output.trendScore.n * half.d = half.n * output.trendScore.d
        /\ 3 * output.momentumScore.n * third.d = third.n * output.momentumScore.d
        /\ 6 * output.rotationScore.n * half.d * third.d
              = output.rotationScore.d * (3 * half.n * third.d + 2 * third.n * half.d)

C17_Witness ==
    /\ Carded
    /\ input.change24h = Num(8)
    /\ input.change7d = Num(18)
    /\ output.trendScore = Rat(9, 2)
    /\ output.rotationScore = Rat(35, 3)
    /\ output.traffic = "Green"

\* C18: getTrafficLight maps every rotation score to exactly one of Green, Yellow,
\* Red: Green iff score >= 6, Red iff score <= -2, Yellow iff -2 < score < 6.
C18_TrafficLightPartition ==
    Carded =>
      \A x \in {output.rotationScore} :
        /\ output.traffic \in {"Green", "Yellow", "Red"}
        /\ output.traffic = "Green" <=> ~Below(x, 6)
        /\ output.traffic = "Red" <=> ~Above(x, -2)
        /\ output.traffic = "Yellow" <=> (Above(x, -2) /\ Below(x, 6))

\* The boundary 6 is Green.
C18_Witness == Carded /\ output.rotationScore = Num(6) /\ output.traffic = "Green"

(* ------------------------------------------------------------------ *)
(* The sector dashboard's trend score over every price and trend       *)
(* ------------------------------------------------------------------ *)

\* Prices and EMAs: absent, NaN, zero, and numbers below, at and above each other.
ScoredPrices == {Null, NaN, Num(0), Num(4), Num(6), Num(8)}

Emas == {NaN, Num(3), Num(6), Num(9)}

Trends == {Undefined} \cup {[ema20 |-> a, ema50 |-> b, change7d |-> Null] : a, b \in Emas}

InitTrendScore ==
    /\ HomeIdle
    /\ EmitterIdle
    /\ PageIdle
    /\ SessionIdle
    /\ \E p \in ScoredPrices, t \in Trends : input = [price |-> p, trend |-> t]
    /\ output = Null

\* const trendScore = getTrendScore(price, trend)
ScoreTrend ==
    /\ output = Null
    /\ output' = [trendScore |-> getTrendScore(input.price, input.trend)]
    /\ UNCHANGED <<homeVars, emitterVars, pageVars, sessionVars, input>>

NextTrendScore == ScoreTrend

SpecTrendScore == InitTrendScore /\ [][NextTrendScore]_vars

(* ------------------------------------------------------------------ *)
(* Claims about the sector dashboard's trend score (SpecTrendScore)    *)
(* ------------------------------------------------------------------ *)

\* C16: getTrendScore(price, trend) returns 0 if ema20 or ema50 is NaN or the
\* trend is missing; for a known price and known EMAs it returns +2 iff
\* price > ema20 > ema50, +1 iff ema20 > ema50 but price <= ema20, -2 iff
\* price < ema20 < ema50, and -1 in every remaining case (ema20 = ema50 included).
C16_TrendScoreTable ==
    output # Null =>
      \A p \in {input.price} : \A t \in {input.trend} :
        /\ (t = Undefined \/ t.ema20 = NaN \/ t.ema50 = NaN) => output.trendScore = 0
        /\ (Known(p) /\ t # Undefined /\ Known(t.ema20) /\ Known(t.ema50)) =>
             \A a \in {t.ema20.n} : \A b \in {t.ema50.n} : \A x \in {p.n} :
               \* every number of this specification is an integer (denominator 1)
               /\ output.trendScore = 2 <=> (x > a /\ a > b)
               /\ output.trendScore = 1 <=> (a > b /\ x <= a)
               /\ output.trendScore = -2 <=> (x < a /\ a < b)
               /\ output.trendScore = -1 <=> ~(a > b) /\ ~(x < a /\ a < b)

(* ------------------------------------------------------------------ *)
(* calculateEMA over every short series and period                     *)
(* ------------------------------------------------------------------ *)

SamplePrices == {Num(0), Num(1), Num(4)}

InitEMA ==
    /\ HomeIdle
    /\ EmitterIdle
    /\ PageIdle
    /\ SessionIdle
    /\ \E n \in 0..MaxSeries : \E f \in [1..n -> SamplePrices] : \E period \in 1..MaxPeriod :
           input = [prices |-> [i \in 1..n |-> f[i]], period |-> period]
    /\ output = Null

\* const ema = calculateEMA(h.prices, period)
ComputeEMA ==
    /\ output = Null
    /\ output' = [ema |-> calculateEMA(input.prices, input.period)]
    /\ UNCHANGED <<homeVars, emitterVars, pageVars, sessionVars, input>>

NextEMA == ComputeEMA

SpecEMA == InitEMA /\ [][NextEMA]_vars

(* ------------------------------------------------------------------ *)
(* Claims about calculateEMA (SpecEMA)                                 *)
(* ------------------------------------------------------------------ *)

RECURSIVE Pow(_, _)
Pow(b, k) == IF k = 0 THEN 1 ELSE b * Pow(b, k - 1)

\* The fold in closed form, times (period + 1)^(n - 1), for integer samples:
\* p[1] (P-1)^(n-1) + sum over i in 2..n of 2 p[i] (P-1)^(n-i) (P+1)^(i-2).
RECURSIVE WeightedTail(_, _, _)
WeightedTail(prices, P, i) ==
    IF i > Len(prices) THEN 0
    ELSE 2 * prices[i].n * Pow(P - 1, Len(prices) - i) * Pow(P + 1, i - 2)
         + WeightedTail(prices, P, i + 1)

Weighted(prices, P) ==
    prices[1].n * Pow(P - 1, Len(prices) - 1) + WeightedTail(prices, P, 2)

\* C19: calculateEMA(prices, period) is NaN iff prices.length < period; otherwise
\* it seeds with prices[0] and folds ema = prices[i] * k + ema * (1 - k),
\* k = 2 / (period + 1), over the remaining samples in order; for period = 1 the
\* result is the last element.
C19_EmaFold ==
    output # Null =>
      \A prices \in {input.prices} : \A P \in {input.period} :
        /\ output.ema = NaN <=> Len(prices) < P
        /\ Len(prices) >= P =>
              output.ema.n * Pow(P + 1, Len(prices) - 1) = output.ema.d * Weighted(prices, P)
        /\ (P = 1 /\ Len(prices) >= 1) => output.ema = prices[Len(prices)]

\* Period 1 over three samples that differ: the last one.
C19_Witness ==
    /\ output # Null
    /\ input.period = 1
    /\ input.prices = <<Num(4), Num(0), Num(1)>>
    /\ output.ema = Num(1)

(* ------------------------------------------------------------------ *)
(* The Page component: load                                            *)
(* ------------------------------------------------------------------ *)

\* JSON values that are not numbers: strings and booleans (numbers are the
\* rationals above, null is Null, a missing field is Undefined).
Str(chars) == [str |-> chars]

Bool(b) == [bool |-> b]

IsNumber(v) == DOMAIN v = {"n", "d"}

\* Number(string) of the strings used here: the empty string is 0.
StringToNumber(chars) ==
    CASE chars = ""  -> Num(0)
      [] chars = "7" -> Num(7)
      [] OTHER       -> NaN

\* Number(v) of a value that is not a number.
ToNumber(v) ==
    IF v = NaN THEN NaN
    ELSE IF DOMAIN v = {"str"} THEN StringToNumber(v.str)
    ELSE IF DOMAIN v = {"bool"} THEN (IF v.bool THEN Num(1) ELSE Num(0))
    ELSE v

\* entry?.field of raw[coin.id]
FieldOf(entry, field) ==
    IF entry = Undefined \/ entry = Null THEN Undefined ELSE entry[field]

\* typeof v === "number" ? v : Number(v ?? NaN), then NaN to null.
Normalize(v) ==
    LET x == IF IsNumber(v) THEN v
             ELSE ToNumber(IF v = Undefined \/ v = Null THEN NaN ELSE v)
    IN  IF IsNaN(x) THEN Null ELSE x

\* Math.round((Math.random() * 20 - 10) * 100) / 100: some hundredth in [-10, 10].
Random7d == {Rat(-1000, 100), Num(0), Rat(523, 100)}

\* map of load: rnd[id] is what Math.random gives for the coin.
BuildMarketMap(json, rnd) ==
    [id \in CoinIds |->
        [price     |-> Normalize(FieldOf(json[id], "usd")),
         change24h |-> Normalize(FieldOf(json[id], "usd_24h_change")),
         change7d  |-> rnd[id]]]

\* What the provider may put in a field, and as a coin's entry.
JsonFields == {Undefined, Null, Num(0), Num(5), Str(""), Str("abc"), Str("7"), Bool(FALSE)}

JsonEntries ==
    {Undefined, Null} \cup {[usd |-> u, usd_24h_change |-> c] : u, c \in JsonFields}

\* The provider's JSON: any entry for one coin, a well-formed quote for the others.
JsonBodies ==
    {[id \in CoinIds |-> IF id = c THEN en ELSE Quote(10, 8)] : c \in CoinIds, en \in JsonEntries}

PageAnswers == {Rejected, NotOk} \cup {Ok(j) : j \in JsonBodies}

LoadError == [message |-> "Failed to load market data. Try refreshing."]

\* load has been started (by the mount effects) and its fetch has not been answered.
LoadPending == effects # "mount" /\ pageLoading /\ pageMarketData = Null /\ errorMsg = Null

\* load, from the answer to await fetch(url) to its end. The effect starts load
\* right after the first render, where setLoading(true) and setErrorMsg(null)
\* change nothing; pageLoading is true while the load is pending.
LoadResolve(a, rnd) ==
    /\ LoadPending
    /\ IF a.kind = "ok"
       THEN /\ pageMarketData' = BuildMarketMap(a.body, rnd)
            /\ raw' = a.body
            /\ UNCHANGED errorMsg
       ELSE /\ errorMsg' = LoadError
            /\ UNCHANGED <<pageMarketData, raw>>
    /\ pageLoading' = FALSE
    /\ UNCHANGED <<homeVars, emitterVars, helperVars, sessionVars>>

InitPage == HomeIdle /\ EmitterIdle /\ HelpersIdle /\ PageIdle /\ SessionIdle

NextPage ==
    LoadPending /\ \E a \in PageAnswers, rnd \in [CoinIds -> Random7d] : LoadResolve(a, rnd)

SpecPage == InitPage /\ [][NextPage]_vars

(* ------------------------------------------------------------------ *)
(* Claims about load (SpecPage)                                        *)
(* ------------------------------------------------------------------ *)

\* What the provider sent for a stored field; the response has no 7d field.
Sent(id, field) ==
    CASE field = "price"     -> FieldOf(raw[id], "usd")
      [] field = "change24h" -> FieldOf(raw[id], "usd_24h_change")
      [] field = "change7d"  -> Undefined

\* C20: when the snapshot is built from a provider response, every price,
\* 24h-change or 7d-change field that is missing, null or not a number is stored
\* as unknown (null) and never as the number 0; a stored 0 occurs only when the
\* provider sent the number 0.
C20_MissingIsUnknown ==
    pageMarketData # Null =>
      \A id \in CoinIds : \A field \in {"price", "change24h", "change7d"} :
        /\ ~IsNumber(Sent(id, field)) => pageMarketData[id][field] = Null
        /\ pageMarketData[id][field] = Num(0) => Sent(id, field) = Num(0)

(* ------------------------------------------------------------------ *)
(* The Page component: the visible coins and the session               *)
(* ------------------------------------------------------------------ *)

\* What localStorage may hold under crm_visible_ids besides nothing (Null): the
\* empty text, a text that is not JSON, JSON that is not an array, an array with
\* an element that is not a string, and an array of strings.
EmptyText == [kind |-> "empty"]

NotJson == [kind |-> "text"]

JsonNotArray == [kind |-> "object"]

JsonMixedArray == [kind |-> "mixed"]

JsonStrings(ids) == [kind |-> "strings", ids |-> ids]

\* JSON.stringify(visibleIds)
Stringify(ids) == JsonStrings(ids)

\* The load-visibility effect on an item: the array it hands to setVisibleIds
\* (as [array |-> ids]), or Null when it does not call it (!saved, JSON.parse
\* throws, not an array of strings).
ReadSaved(item) ==
    IF item = Null THEN Null
    ELSE IF item.kind = "strings" THEN [array |-> item.ids]
    ELSE Null

\* VisibleCoinsOf showing the coins in the order of visibleIds.
VisibleCoinsInIdOrder(ids) == SelectSeq(ids, LAMBDA id : id \in CoinIds)

\* COINS.filter((c) => visibleIds.includes(c.id)), as ids
VisibleCoinsOf(ids) ==
    LET vis == SelectSeq(COINS, LAMBDA c : \E i \in 1..Len(ids) : ids[i] = c.id)
    IN  [i \in 1..Len(vis) |-> vis[i].id]

\* What the component renders: the loading screen, or the main view with the
\* error message (Null: none) and the cards of the visible coins.
View ==
    IF pageLoading \/ pageMarketData = Null
    THEN [screen |-> "loading"]
    ELSE [screen |-> "main", message |-> errorMsg, cards |-> VisibleCoinsOf(visibleIds)]

\* The effects of the first commit, in order: load the saved visibility, save
\* visibleIds (the default of the first render), start load. Under React's strict
\* mode (reactStrictMode: true), a development build runs them a second time,
\* against the item the first run stored, before the queued setVisibleIds calls
\* are applied. (The second load a development build starts is left out.)
MountEffects(strict) ==
    /\ effects = "mount"
    /\ LET first  == ReadSaved(storage)
           stored == Stringify(visibleIds)
           second == IF strict THEN ReadSaved(stored) ELSE Null
           queued == IF second # Null THEN second ELSE first
       IN  /\ storage' = stored
           /\ visibleIds' = IF queued # Null THEN queued.array ELSE visibleIds
           /\ effects' = IF queued # Null THEN "save" ELSE "none"
    /\ UNCHANGED <<homeVars, emitterVars, helperVars, pageVars, savedAtStart, lastLoad>>

\* The save-visibility effect after a render with a new visibleIds.
SaveEffect ==
    /\ effects = "save"
    /\ storage' = Stringify(visibleIds)
    /\ effects' = "none"
    /\ UNCHANGED <<homeVars, emitterVars, helperVars, pageVars, visibleIds, savedAtStart,
                   lastLoad>>

\* active ? prev.filter((id) => id !== coin.id) : [...prev, coin.id]
Toggled(ids, id) ==
    IF \E i \in 1..Len(ids) : ids[i] = id
    THEN SelectSeq(ids, LAMBDA x : x # id)
    ELSE Append(ids, id)

\* A click on a coin's chip: the chips are part of the main view.
Toggle(id) ==
    /\ effects = "none"
    /\ View.screen = "main"
    /\ visibleIds' = Toggled(visibleIds, id)
    /\ effects' = "save"
    /\ UNCHANGED <<homeVars, emitterVars, helperVars, pageVars, storage, savedAtStart,
                   lastLoad>>

\* window.location.reload(), or the browser's reload: a new session over the
\* same localStorage.
Reload ==
    /\ effects = "none"
    /\ ~LoadPending
    /\ pageMarketData' = Null
    /\ pageLoading' = TRUE
    /\ errorMsg' = Null
    /\ raw' = Null
    /\ visibleIds' = DefaultVisibleIds
    /\ effects' = "mount"
    /\ savedAtStart' = storage
    /\ lastLoad' = IF pageMarketData # Null
                   THEN [raw |-> raw, map |-> pageMarketData]
                   ELSE lastLoad
    /\ UNCHANGED <<homeVars, emitterVars, helperVars, storage>>

\* A session starting over the item it finds.
InitSession(items0) ==
    /\ HomeIdle
    /\ EmitterIdle
    /\ HelpersIdle
    /\ PageIdle
    /\ visibleIds = DefaultVisibleIds
    /\ storage \in items0
    /\ savedAtStart = storage
    /\ effects = "mount"
    /\ lastLoad = Null

(* ------------------------------------------------------------------ *)
(* Sessions reloaded over the same answers                             *)
(* ------------------------------------------------------------------ *)

ReloadAnswers ==
    {Rejected,
     Ok([id \in CoinIds |-> Quote(10, 8)]),
     Ok([id \in CoinIds |-> IF id = "bitcoin" THEN Undefined ELSE Quote(10, 8)])}

ReloadRandoms == [CoinIds -> {Num(0), Rat(523, 100)}]

InitReload == InitSession({Null})

NextReload ==
    \/ \E strict \in BOOLEAN : MountEffects(strict)
    \/ SaveEffect
    \/ LoadPending /\ \E a \in ReloadAnswers, rnd \in ReloadRandoms : LoadResolve(a, rnd)
    \/ Reload

SpecReload == InitReload /\ [][NextReload]_vars

\* C21: every coin's change7d is derived from the provider's data or is unknown:
\* two loads that receive identical responses produce identical change7d values,
\* hence identical rotation scores, trend labels and traffic lights for every coin.
C21_SameResponseSameCards ==
    (pageMarketData # Null /\ lastLoad # Null /\ lastLoad.raw = raw) =>
      \A id \in CoinIds :
        /\ pageMarketData[id].change7d = lastLoad.map[id].change7d
        /\ Card(pageMarketData[id]) = Card(lastLoad.map[id])

(* ------------------------------------------------------------------ *)
(* More claims about the Page component's helpers (SpecCard)           *)
(* ------------------------------------------------------------------ *)

\* C22: for a coin whose change24h and change7d are both missing the derived
\* result is fully defined and neutral: trendScore, momentumScore and
\* rotationScore 0, traffic light Yellow, trend label and trend phase Unknown,
\* sentiment and acceleration at their default; no function throws.
C22_AllMissingNeutral ==
    (Carded /\ input.change24h = Null /\ input.change7d = Null) =>
        /\ output.trendScore = Num(0)
        /\ output.momentumScore = Num(0)
        /\ output.rotationScore = Num(0)
        /\ output.traffic = "Yellow"
        /\ output.trendLabel = "Unknown"
        /\ output.trendPhase = "Unknown"
        /\ output.sentiment = "Neutral"
        /\ output.accelerationLabel = "No clear acceleration"

\* The card of a coin with a price and neither change.
C22_Witness ==
    /\ Carded
    /\ input.price = Num(10)
    /\ input.change24h = Null
    /\ input.change7d = Null
    /\ output.traffic = "Yellow"

(* ------------------------------------------------------------------ *)
(* One session over every saved item, with chip toggles                *)
(* ------------------------------------------------------------------ *)

\* What a session may find stored: nothing, texts the effect rejects, and arrays
\* of strings that are empty, reordered, repeated or name a coin not in COINS.
InitialItems ==
    {Null, EmptyText, NotJson, JsonNotArray, JsonMixedArray,
     JsonStrings(<<>>),
     JsonStrings(<<"bitcoin">>),
     JsonStrings(<<"dogecoin">>),
     JsonStrings(<<"solana", "bitcoin">>),
     JsonStrings(<<"bitcoin", "dogecoin", "bitcoin">>)}

VisibilityAnswers == {Rejected, NotOk, Ok([id \in CoinIds |-> Quote(10, 8)])}

VisibilityRandoms == {[id \in CoinIds |-> Rat(523, 100)]}

InitVisibility == InitSession(InitialItems)

NextVisibility ==
    \/ \E strict \in BOOLEAN : MountEffects(strict)
    \/ SaveEffect
    \/ \E id \in CoinIds : Toggle(id)
    \/ LoadPending /\ \E a \in VisibilityAnswers, rnd \in VisibilityRandoms : LoadResolve(a, rnd)

SpecVisibility == InitVisibility /\ [][NextVisibility]_vars

(* ------------------------------------------------------------------ *)
(* Claims about the visible coins and the views (SpecVisibility)       *)
(* ------------------------------------------------------------------ *)

IdsOf(ids) == {ids[i] : i \in 1..Len(ids)}

\* C23: on startup the saved list is sanitised: ids that are not ids of COINS are
\* dropped before the list becomes visibleIds, and if nothing valid remains (a
\* saved empty list included) visibleIds stays the default full set.
C23_StartupSanitises ==
    [][effects = "mount" =>
          /\ IdsOf(visibleIds') \subseteq CoinIds
          /\ (storage # Null /\ storage.kind = "strings" /\ IdsOf(storage.ids) \cap CoinIds = {})
                => visibleIds' = DefaultVisibleIds]_vars

\* C24: zero coins is never persisted or displayed as the learned visible set: in
\* every reachable state, also after every chip was toggled off, the stored list
\* is non-empty and at least one coin is visible.
C24_NeverZeroCoins ==
    effects # "mount" =>
        /\ storage # Stringify(<<>>)
        /\ IdsOf(visibleIds) \cap CoinIds # {}

\* C25: the preference is read once at startup and written on every change: once
\* the pending effects have run the stored value equals the current visibleIds,
\* and a preference saved by a previous session is not lost by the startup.
C25_PreferencePersists ==
    [][/\ effects' = "none" => storage' = Stringify(visibleIds')
       /\ (/\ effects = "mount"
           /\ savedAtStart # Null /\ savedAtStart.kind = "strings"
           /\ savedAtStart.ids # <<>> /\ IdsOf(savedAtStart.ids) \subseteq CoinIds)
             => visibleIds' = savedAtStart.ids]_vars

IdIndex(id) == CHOOSE i \in 1..Len(COINS) : COINS[i].id = id

\* C28: the cards depend only on the set of ids in visibleIds: the visible coins
\* are exactly the COINS whose id is in visibleIds, each once and in COINS order,
\* and toggling the same chip twice returns them to what they were.
C28_CardsFollowIdSet ==
    View.screen = "main" =>
      \A cards \in {View.cards} :
        /\ IdsOf(cards) = IdsOf(visibleIds) \cap CoinIds
        /\ \A i, j \in 1..Len(cards) : i < j => IdIndex(cards[i]) < IdIndex(cards[j])
        /\ \A id \in CoinIds :
              VisibleCoinsOf(Toggled(Toggled(visibleIds, id), id)) = cards

\* The ids are stored out of COINS order, with one repeated and one unknown.
C28_Witness ==
    /\ View.screen = "main"
    /\ visibleIds = <<"bitcoin", "dogecoin", "bitcoin", "avalanche-2", "solana">>
    /\ View.cards = <<"bitcoin", "solana", "avalanche-2">>

\* C29: every load attempt ends with loading = false, and after a failed load the
\* user is shown the message: whenever errorMsg is set and loading is false the
\* rendered view contains it rather than the loading screen.
C29_ErrorIsShown ==
    /\ (effects # "mount" /\ ~LoadPending) => ~pageLoading
    /\ (errorMsg # Null /\ ~pageLoading) =>
          /\ View.screen = "main"
          /\ View.message = LoadError

(* ------------------------------------------------------------------ *)
(* The sector dashboard's momentum score over pairs of changes          *)
(* ------------------------------------------------------------------ *)

\* 24h changes: absent, NaN, and every half from -8 to 8.
MomentumChanges == {Null, NaN} \cup {Rat(n, 2) : n \in -16..16}

InitMomentum ==
    /\ HomeIdle
    /\ EmitterIdle
    /\ PageIdle
    /\ SessionIdle
    /\ \E a, b \in MomentumChanges : input = [a |-> a, b |-> b]
    /\ output = Null

\* const momentumScore = getMomentumScore(change), for two coins
ScoreMomentum ==
    /\ output = Null
    /\ output' = [a |-> getMomentumScore(input.a), b |-> getMomentumScore(input.b)]
    /\ UNCHANGED <<homeVars, emitterVars, pageVars, sessionVars, input>>

NextMomentum == ScoreMomentum

SpecMomentum == InitMomentum /\ [][NextMomentum]_vars

\* The score the table gives a known change.
Bucket(c) ==
    IF Above(c, 7) THEN 3
    ELSE IF Above(c, 3) THEN 2
    ELSE IF Above(c, 0) THEN 1
    ELSE IF c.n = 0 THEN 0
    ELSE IF ~Below(c, -3) THEN -1
    ELSE IF ~Below(c, -7) THEN -2
    ELSE -3

\* C26: the dashboard's getMomentumScore(change) is 0 for an unknown or zero
\* change, 3 if change > 7, 2 if 3 < change <= 7, 1 if 0 < change <= 3, -1 if
\* -3 <= change < 0, -2 if -7 <= change < -3, -3 if change < -7: an integer in
\* [-3, 3], non-decreasing in change.
C26_MomentumBuckets ==
    output # Null =>
      /\ \A side \in {"a", "b"} :
            /\ output[side] \in -3..3
            /\ ~Known(input[side]) => output[side] = 0
            /\ Known(input[side]) => output[side] = Bucket(input[side])
      /\ (Known(input.a) /\ Known(input.b) /\ input.a.n * input.b.d <= input.b.n * input.a.d)
            => output.a <= output.b

\* The two changes are the boundaries 7 and 3.5: scores 2 and 2, not 3 and 2.
C26_Witness ==
    /\ output # Null
    /\ input = [a |-> Num(7), b |-> Rat(7, 2)]
    /\ output = [a |-> 2, b |-> 2]

(* ------------------------------------------------------------------ *)
(* The sector dashboard's rotation score over every entry and trend    *)
(* ------------------------------------------------------------------ *)

\* Entries of marketData: price and change24h each absent or a number.
ScoredEntries ==
    {[price |-> p, change24h |-> c] :
        p \in {Null, Num(0), Num(4), Num(6), Num(8)},
        c \in {Null, NaN} \cup {Num(n) : n \in {-8, -7, -5, -3, -1, 0, 1, 3, 5, 7, 8}}}

InitScore ==
    /\ HomeIdle
    /\ EmitterIdle
    /\ PageIdle
    /\ SessionIdle
    /\ \E m \in ScoredEntries, t \in Trends : input = [entry |-> m, trend |-> t]
    /\ output = Null

\* The score of a rotation item: the coin's entry of marketData, and its entry
\* of trendData or none (trendData null, or the coin filtered out of it).
ScoreRotation ==
    /\ output = Null
    /\ LET md == [id \in CoinIds |-> input.entry]
           td == IF input.trend = Undefined THEN Null
                 ELSE [id \in CoinIds |-> input.trend]
       IN  output' = [score |-> RotationScore(md, td, COINS[1])]
    /\ UNCHANGED <<homeVars, emitterVars, pageVars, sessionVars, input>>

NextScore == ScoreRotation

SpecScore == InitScore /\ [][NextScore]_vars

\* C27: the dashboard's rotation score (momentumScore + 2 * trendScore) is an
\* integer in [-7, 7] whatever the provider returned, and 0 for a coin with no
\* market data and no trend data.
C27_RotationScoreRange ==
    output # Null =>
      /\ output.score \in -7..7
      /\ (/\ input.entry.price = Null
          /\ input.entry.change24h = Null
          /\ input.trend = Undefined) => output.score = 0

\* Both ends of the range are about this state: price above ema20 above ema50
\* and a change above 7.
C27_Witness ==
    /\ output # Null
    /\ input.entry = [price |-> Num(8), change24h |-> Num(8)]
    /\ input.trend = [ema20 |-> Num(6), ema50 |-> Num(3), change7d |-> Null]
    /\ output.score = 7

(* ------------------------------------------------------------------ *)
(* A claim about the dashboard's cleanup (Spec)                        *)
(* ------------------------------------------------------------------ *)

\* C30: after the effect's cleanup (cancelled = true, interval cleared) no
\* fetchAll, in flight or not, changes marketData, trendData, lastUpdated, error
\* or loading, and the timer starts no further refresh.
C30_NothingAfterCleanup ==
    [][cancelled =>
          /\ UNCHANGED <<marketData, trendData, lastUpdated, error, loading>>
          /\ Len(calls') = Len(calls)]_vars

\* A fetchAll that was in flight at the cleanup has run to its end with an ok
\* answer to each request, and the state shows nothing of it.
C30_Witness ==
    /\ cancelled
    /\ \E r \in 1..Len(calls) : calls[r] = "done"
    /\ marketData = Null
    /\ trendData = Null
    /\ lastUpdated = Null
    /\ loading

====
